---- MODULE Spec2Model ----
(***************************************************************************)
(* Batched inference scheduler of ai00_rwkv_server (src/src/run.rs):       *)
(* the slot table and the prefix-state cache (Runtime::queue), the step    *)
(* pipeline (Runtime::process) and the run loop (run).                     *)
(*                                                                         *)
(* Abstractions.  A model state (ModelState slot / BackedState) is the     *)
(* sequence of tokens that was fed into a fresh state to produce it.  An   *)
(* Instant is a number of clock ticks; TicksPerMs ticks make the           *)
(* millisecond that Duration::as_millis truncates to.  A byte is a small   *)
(* number (see IsAscii, IsLead, IsCont).  A request's sender is the index  *)
(* of its sink in the variable sink.  The field penalties of               *)
(* GenerateContext is not modelled: no statement below reads it.           *)
(***************************************************************************)
EXTENDS Integers, Sequences, FiniteSets, TLC

\* ------------------------------------------------------------------ bounds
MaxLen == 3
MaxTime == 2
MaxReq == 2
MaxTokens == 2
MaxStream == 4
MaxErrors == 1
MaxPrompt == 2

\* ------------------------------------------------------- program constants
NumSlots == 2
MaxRuntimeBatch == 1
TicksPerMs == 2

Token == {1, 2}
\* The batch indices of a runtime whose state has max_batch slots.
Batches(n) == 0 .. (n - 1)

VARIABLES
    slots,      \* Runtime.slots: the slot table
    cache,      \* Runtime.backed: the prefix-state cache, key -> snapshot
    state,      \* Runtime.state: the model's state of each slot
    payloads,   \* run's payloads vector
    sink,       \* per request: is the receiver alive, the events delivered
    now,        \* the monotonic clock read by Instant::now / elapsed
    nreq,       \* number of queue calls made so far
    ret,        \* the SlotResult of the last queue call
    reaped,     \* per slot: the context the last reap took out of the payload
    pc,         \* position of the run loop
    setting,    \* Setting.stop: the process-wide stop strings
    max_runtime_batch,  \* Runtime.max_runtime_batch, given to Runtime::new
    errors,     \* number of process calls that returned an error
    locks,      \* who holds the Mutex of Runtime.slots and of Runtime.backed
    calls,      \* per caller: where its queue call is, and its locals
    local       \* the locals of process across the await of its reap loop

vars == <<slots, cache, state, payloads, sink, now, nreq, ret, reaped, pc, setting,
          max_runtime_batch, errors, locks, calls, local>>

\* The batch indices of the slot table, and state.max_batch().
Slots == DOMAIN slots

max_batch == Cardinality(Slots)

\* ----------------------------------------------------------------- helpers
SeqsUpTo(S, n) == UNION {[1 .. k -> S] : k \in 0 .. n}

Take(s, n) == SubSeq(s, 1, n)

Drop(s, n) == SubSeq(s, n + 1, Len(s))

\* slice::starts_with
StartsWith(s, p) == Len(p) <= Len(s) /\ Take(s, Len(p)) = p

Min2(a, b) == IF a <= b THEN a ELSE b

\* ---------------------------------------------------------------- records
NoCtx == [id |-> 0, prompt_tokens |-> << >>, prefix |-> << >>, suffix |-> << >>,
          model_text |-> << >>, output_buffer |-> << >>, model_tokens |-> << >>,
          max_tokens |-> 0, stop |-> << >>, embed |-> FALSE]

Idle(content, since) == [tag |-> "Idle", content |-> content, since |-> since, ctx |-> NoCtx]

Wait(ctx) == [tag |-> "Wait", content |-> << >>, since |-> 0, ctx |-> ctx]

Busy == [tag |-> "Busy", content |-> << >>, since |-> 0, ctx |-> NoCtx]

PayloadEmpty == [tag |-> "Empty", ctx |-> NoCtx]

PayloadBusy(ctx) == [tag |-> "Busy", ctx |-> ctx]

PayloadDone(ctx) == [tag |-> "Done", ctx |-> ctx]

NoRet == [kind |-> "None", batch |-> 0, choice |-> "None", ctx |-> NoCtx]

\* The state StateBuilder::build_backed makes: nothing fed.
FreshState == << >>

\* The state obtained by feeding tokens into a fresh state.
FeedFresh(tokens) == FreshState \o tokens

\* The tasks that take the locks: the callers of queue and the run loop.
NoTask == [task |-> "none", id |-> 0]

Caller(c) == [task |-> "queue", id |-> c]

RunLoop == [task |-> "run", id |-> 0]

\* Both Mutexes free.
Unlocked == [slots |-> NoTask, backed |-> NoTask]

\* A queue call not started; the locals process keeps while it reaps.
NoCall == [pc |-> "idle", ctx |-> NoCtx, admitted |-> NoCtx, batch |-> 0,
           content |-> << >>, reload |-> << >>,
           seen |-> [slots |-> << >>, cache |-> << >>]]

NoLocal == [batch |-> 0, ctx |-> NoCtx]

\* ------------------------------------------------------------------- cache
CacheInsert(c, key, val) ==
    [k \in (DOMAIN c) \cup {key} |-> IF k = key THEN val ELSE c[k]]

CacheRemove(c, key) == [k \in (DOMAIN c) \ {key} |-> c[k]]

\* Trie::longest_common_prefix through Break::find_break: the longest prefix
\* of the query that is also a prefix of some key, cut at a token boundary.
LongestCommonPrefix(c, query) ==
    LET lens == {n \in 0 .. Len(query) :
                    n = 0 \/ \E k \in DOMAIN c : StartsWith(k, Take(query, n))}
        best == CHOOSE n \in lens : \A m \in lens : m <= n
    IN  Take(query, best)

\* Variant of checkout that takes the entry out of the cache for good.
checkoutTake(c, tokens) ==
    LET prefix0 == LongestCommonPrefix(c, tokens)
        lens == {n \in 1 .. Len(prefix0) : Take(prefix0, n) \in DOMAIN c}
        len == IF lens = {} THEN 0 ELSE CHOOSE n \in lens : \A m \in lens : m <= n
        prefix == Take(prefix0, len)
        reload == IF prefix \in DOMAIN c THEN c[prefix] ELSE FreshState
    IN  [prefix |-> prefix, reload |-> reload, cache |-> CacheRemove(c, prefix)]

\* Variant of checkout that settles for the shortest cached key.
checkoutShort(c, tokens) ==
    LET prefix0 == LongestCommonPrefix(c, tokens)
        lens == {n \in 1 .. Len(prefix0) : Take(prefix0, n) \in DOMAIN c}
        len == IF lens = {} THEN 0 ELSE CHOOSE n \in lens : \A m \in lens : n <= m
        prefix == Take(prefix0, len)
        reload == IF prefix \in DOMAIN c THEN c[prefix] ELSE FreshState
        removed == CacheRemove(c, prefix)
    IN  [prefix |-> prefix, reload |-> reload,
         cache |-> IF len > 0 THEN CacheInsert(removed, prefix, reload) ELSE removed]

\* The checkout closure of queue: the key found, the state to load, the cache after.
checkout(c, tokens) ==
    LET prefix0 == LongestCommonPrefix(c, tokens)
        lens == {n \in 1 .. Len(prefix0) : Take(prefix0, n) \in DOMAIN c}
        len == IF lens = {} THEN 0 ELSE CHOOSE n \in lens : \A m \in lens : m <= n
        prefix == Take(prefix0, len)
        reload == IF prefix \in DOMAIN c THEN c[prefix] ELSE FreshState
        removed == CacheRemove(c, prefix)
    IN  [prefix |-> prefix, reload |-> reload,
         cache |-> IF len > 0 THEN CacheInsert(removed, prefix, reload) ELSE removed]

\* ------------------------------------------------------------- slot choice
Continue(batch, len) == [kind |-> "Continue", batch |-> batch, len |-> len]

Back(batch) == [kind |-> "Back", batch |-> batch, len |-> 0]

Empty(batch) == [kind |-> "Empty", batch |-> batch, len |-> 0]

\* Ordering as a number: -1 Less, 0 Equal, 1 Greater.
IntCmp(x, y) == IF x < y THEN -1 ELSE IF x > y THEN 1 ELSE 0

\* impl Ord for SlotChoice
SlotChoiceCmp(x, y) ==
    CASE x.kind = "Continue" /\ y.kind = "Continue" -> IntCmp(x.len, y.len)
      [] x.kind = "Continue" -> 1
      [] y.kind = "Continue" -> -1
      [] x.kind = "Empty" /\ y.kind = "Empty" -> 0
      [] x.kind = "Empty" /\ y.kind = "Back" -> 1
      [] x.kind = "Back" /\ y.kind = "Empty" -> -1
      [] OTHER -> 0

\* Instant::elapsed().as_millis()
ElapsedMillis(since, t) == (t - since) \div TicksPerMs

\* The filter_map closure of queue: a slot's candidate, or none.
Classify(batch, slot, tokens, t) ==
    IF slot.tag # "Idle" THEN << >>
    ELSE LET delta == ElapsedMillis(slot.since, t)
         IN  IF slot.content = << >> THEN << <<Empty(batch), delta>> >>
             ELSE IF StartsWith(tokens, slot.content)
                  THEN << <<Continue(batch, Len(slot.content)), delta>> >>
                  ELSE << <<Back(batch), delta>> >>

RECURSIVE Candidates(_, _, _, _)
Candidates(sl, tokens, t, n) ==
    IF n = 0 THEN << >>
    ELSE Candidates(sl, tokens, t, n - 1) \o Classify(n - 1, sl[n - 1], tokens, t)

\* The comparison handed to max_by: the choice, then the elapsed milliseconds.
CandidateCmp(lhs, rhs) ==
    LET c == SlotChoiceCmp(lhs[1], rhs[1])
    IN  IF c # 0 THEN c ELSE IntCmp(lhs[2], rhs[2])

\* Iterator::max_by: of several maximal elements the last one is returned.
RECURSIVE MaxBy(_, _)
MaxBy(cands, n) ==
    IF n = 1 THEN cands[1]
    ELSE LET best == MaxBy(cands, n - 1)
         IN  IF CandidateCmp(best, cands[n]) = 1 THEN best ELSE cands[n]

\* ------------------------------------------------------------------- queue
\* split_last: the input without its last token.
Stem(full) == Take(full, Len(full) - 1)

\* Variant of FailureContext that hands back the input without its last token.
FailureContextStem(context, full) ==
    [context EXCEPT !.prefix = << >>, !.suffix = Stem(full)]

\* The context handed back with SlotResult::Failure.
FailureContext(context, full) ==
    [context EXCEPT !.prefix = << >>, !.suffix = Stem(full) \o <<full[Len(full)]>>]

\* Variant of Admitted that reuses nothing: empty prefix, the whole input to feed.
AdmittedFresh(context, full, len) ==
    [context EXCEPT !.prefix = << >>, !.suffix = Stem(full) \o <<full[Len(full)]>>]

\* The context put in the slot: the first len tokens are its prefix.
Admitted(context, full, len) ==
    LET tokens == Stem(full) \o <<full[Len(full)]>>
    IN  [context EXCEPT !.prefix = Take(tokens, len), !.suffix = Drop(tokens, len)]

\* Runtime::queue as a function of what it reads: the slot table, the cache,
\* the model states, the clock and the context handed in.
queue(sl, c, st, t, context) ==
    LET full == context.prefix \o context.suffix
        tokens == Stem(full)
        cands == Candidates(sl, tokens, t, max_batch)
    IN  IF full = << >>
        THEN [slots |-> sl, cache |-> c, state |-> st,
              ret |-> [kind |-> "Error", batch |-> 0, choice |-> "None", ctx |-> context]]
        ELSE IF cands = << >>
        THEN [slots |-> sl, cache |-> c, state |-> st,
              ret |-> [kind |-> "Failure", batch |-> 0, choice |-> "None",
                       ctx |-> FailureContext(context, full)]]
        ELSE LET choice == MaxBy(cands, Len(cands))[1]
                 batch == choice.batch
             IN  IF choice.kind = "Continue"
                 THEN LET admitted == Admitted(context, full, choice.len)
                      IN  [slots |-> [sl EXCEPT ![batch] = Wait(admitted)],
                           cache |-> c,
                           state |-> st,
                           ret |-> [kind |-> "Success", batch |-> batch,
                                    choice |-> "Continue", ctx |-> admitted]]
                 ELSE LET co == checkout(c, tokens)
                          admitted == Admitted(context, full, Len(co.prefix))
                      IN  [slots |-> [sl EXCEPT ![batch] = Wait(admitted)],
                           cache |-> IF choice.kind = "Back"
                                     THEN CacheInsert(co.cache, sl[batch].content, st[batch])
                                     ELSE co.cache,
                           state |-> [st EXCEPT ![batch] = co.reload],
                           ret |-> [kind |-> "Fault", batch |-> batch,
                                    choice |-> choice.kind, ctx |-> admitted]]

\* ------------------------------------------------------------ text, events
\* Bytes: 1 and 2 are ASCII letters, 3 is the lead byte of a two-byte
\* character, 4 its continuation byte; 5 stands for U+FFFD in a String.
IsAscii(b) == b \in {1, 2}

IsLead(b) == b = 3

IsCont(b) == b = 4

\* Tokenizer::decode of one token.
Decode(token) ==
    CASE token = 1 -> <<1>>
      [] token = 2 -> <<2>>
      [] token = 3 -> <<1, 2>>
      [] token = 4 -> <<3>>
      [] OTHER -> <<4>>

\* String::from_utf8(bytes).is_ok()
RECURSIVE IsUtf8(_)
IsUtf8(bytes) ==
    IF bytes = << >> THEN TRUE
    ELSE IF IsAscii(Head(bytes)) THEN IsUtf8(Tail(bytes))
    ELSE IF IsLead(Head(bytes)) /\ Len(bytes) >= 2 /\ IsCont(bytes[2])
         THEN IsUtf8(Drop(bytes, 2))
         ELSE FALSE

\* String::from_utf8_lossy: every invalid byte becomes U+FFFD.
RECURSIVE Utf8Lossy(_)
Utf8Lossy(bytes) ==
    IF bytes = << >> THEN << >>
    ELSE IF IsAscii(Head(bytes)) THEN <<Head(bytes)>> \o Utf8Lossy(Tail(bytes))
    ELSE IF IsLead(Head(bytes)) /\ Len(bytes) >= 2 /\ IsCont(bytes[2])
         THEN Take(bytes, 2) \o Utf8Lossy(Drop(bytes, 2))
         ELSE <<5>> \o Utf8Lossy(Tail(bytes))

EvStart == [type |-> "Start", text |-> << >>, reason |-> "", completion_tokens |-> 0]

EvToken(text) == [type |-> "Token", text |-> text, reason |-> "", completion_tokens |-> 0]

EvStop(reason, n) == [type |-> "Stop", text |-> << >>, reason |-> reason, completion_tokens |-> n]

EvDone == [type |-> "Done", text |-> << >>, reason |-> "", completion_tokens |-> 0]

EvEmbed == [type |-> "Embed", text |-> << >>, reason |-> "", completion_tokens |-> 0]

\* Sender::send: delivered while the receiver is alive, dropped afterwards.
Send(sk, id, events) ==
    IF sk[id].connected
    THEN [sk EXCEPT ![id].events = @ \o events]
    ELSE sk

\* Variant of is_disconnected that never notices the dropped receiver.
is_disconnectedNever(sk, id) == FALSE

\* Sender::is_disconnected
is_disconnected(sk, id) == ~sk[id].connected

\* ----------------------------------------------------- stop-string matching
\* The scan of one stop string over output_buffer: <<pointer_safe, matched>>.
RECURSIVE StopScan(_, _, _, _)
StopScan(buffer, stop, pointer_safe, pointer_unsafe) ==
    IF pointer_unsafe < Len(buffer)
    THEN LET pointer_stop == pointer_unsafe - pointer_safe
         IN  IF pointer_stop >= Len(stop)
             THEN <<pointer_safe, TRUE>>
             ELSE IF buffer[pointer_unsafe + 1] # stop[pointer_stop + 1]
                  THEN StopScan(buffer, stop, pointer_unsafe + 1, pointer_unsafe + 1)
                  ELSE StopScan(buffer, stop, pointer_safe, pointer_unsafe + 1)
    ELSE <<pointer_safe, pointer_unsafe - pointer_safe >= Len(stop)>>

\* The comparison handed to min_by: a match first, then the smaller pointer.
StopCmp(x, y) ==
    IF x[2] /\ ~y[2] THEN -1
    ELSE IF ~x[2] /\ y[2] THEN 1
    ELSE IntCmp(x[1], y[1])

\* Iterator::min_by: of several minimal elements the first one is returned.
RECURSIVE MinBy(_, _)
MinBy(xs, n) ==
    IF n = 1 THEN xs[1]
    ELSE LET best == MinBy(xs, n - 1)
         IN  IF StopCmp(best, xs[n]) = 1 THEN xs[n] ELSE best

\* <<output_pointer, stop_matched>> over request.stop chained with setting.stop.
StopMatch(buffer, stops) ==
    IF stops = << >> THEN <<Len(buffer), FALSE>>
    ELSE MinBy([i \in 1 .. Len(stops) |-> StopScan(buffer, stops[i], 0, 0)], Len(stops))

\* ------------------------------------------------- process: per-slot update
\* Variant of PushToken that drops the sampled token.
PushTokenLost(suffix, token) == suffix

\* context.suffix.0.push(token)
PushToken(suffix, token) == suffix \o <<token>>

\* Variant of Exhausted that lets one token more through.
ExhaustedLate(count, max_tokens) == count > max_tokens

\* context.model_tokens.len() >= context.request.max_tokens
Exhausted(count, max_tokens) == count >= max_tokens

\* The body of the last loop of process for one Busy payload: remaining is
\* what the model left of the input, token the sampled token (0: none).
\* Gives the context after, the events sent and whether the payload is done.
UpdateSlot(context, remaining, token, stops, disconnected) ==
    LET model_tokens == context.prefix \o context.suffix
        len == Len(model_tokens) - remaining
        moved == [context EXCEPT !.prefix = Take(model_tokens, len),
                                 !.suffix = Drop(model_tokens, len)]
    IN  IF token = 0
        THEN [ctx |-> moved, events |-> << >>, done |-> FALSE]
        ELSE LET buffer == moved.output_buffer \o Decode(token)
                 sampled == [moved EXCEPT !.suffix = PushToken(@, token),
                                          !.model_text = @ \o Decode(token),
                                          !.output_buffer = buffer,
                                          !.model_tokens = @ \o <<token>>]
                 m == StopMatch(buffer, context.stop \o stops)
                 output == Take(buffer, m[1])
                 count == Len(sampled.model_tokens)
             IN  IF disconnected
                 THEN [ctx |-> sampled, events |-> << >>, done |-> TRUE]
                 ELSE IF m[2]
                 THEN [ctx |-> sampled,
                       events |-> <<EvToken(Utf8Lossy(output)), EvStop("Stop", count), EvDone>>,
                       done |-> TRUE]
                 ELSE IF Exhausted(count, context.max_tokens)
                 THEN [ctx |-> sampled,
                       events |-> <<EvStop("Length", count), EvDone>>,
                       done |-> TRUE]
                 ELSE IF IsUtf8(output)
                 THEN [ctx |-> [sampled EXCEPT !.output_buffer = Drop(buffer, m[1])],
                       events |-> <<EvToken(output)>>,
                       done |-> FALSE]
                 ELSE [ctx |-> sampled, events |-> << >>, done |-> FALSE]

\* Variant of finalize that leaves the payload Busy.
finalizeKeepsBusy(payload) == payload

\* Payload::finalize
finalize(payload) ==
    IF payload.tag = "Busy" THEN PayloadDone(payload.ctx) ELSE payload

\* ------------------------------------------------ process: locked section
\* Variant of KillDead that resets every payload.
KillDeadAlways(sl, pl) == [b \in Slots |-> PayloadEmpty]

\* "kill dead payloads": a payload that is not Empty beside a slot that is
\* not Busy is reset.
KillDead(sl, pl) ==
    [b \in Slots |-> IF pl[b].tag # "Empty" /\ sl[b].tag # "Busy" THEN PayloadEmpty ELSE pl[b]]

\* Variant of ReapContent that labels the slot with the prompt alone.
ReapContentPrompt(context) == context.prompt_tokens

\* The content a reaped slot is labelled with, and the key of its snapshot.
ReapContent(context) == context.prefix

\* "reset all finished slots to idle", for the slots from batch on, in index
\* order.  w holds the slots, the cache, the payloads, the sinks and the
\* contexts taken out.
RECURSIVE Reap(_, _, _, _)
Reap(w, st, t, batch) ==
    IF batch = max_batch THEN w
    ELSE IF w.payloads[batch].tag # "Done" THEN Reap(w, st, t, batch + 1)
    ELSE LET context == w.payloads[batch].ctx
             backed == st[batch]
         IN  Reap([slots |-> [w.slots EXCEPT ![batch] = Idle(ReapContent(context), t)],
                   cache |-> CacheInsert(w.cache, ReapContent(context), backed),
                   payloads |-> [w.payloads EXCEPT ![batch] = PayloadEmpty],
                   sink |-> IF context.embed THEN Send(w.sink, context.id, <<EvEmbed>>)
                            ELSE w.sink,
                   reaped |-> [w.reaped EXCEPT ![batch] = context]],
                  st, t, batch + 1)

\* Variant of WaitBefore that counts from the far end of the table.
WaitBeforeReversed(sl, batch) == Cardinality({b \in Slots : b > batch /\ sl[b].tag = "Wait"})

\* Number of slots before batch that are in Wait.
WaitBefore(sl, batch) == Cardinality({b \in Slots : b < batch /\ sl[b].tag = "Wait"})

\* Variant of Promoted that does not count the payloads already Busy.
PromotedRegardless(sl, pl) ==
    {b \in Slots : sl[b].tag = "Wait" /\ WaitBefore(sl, b) < max_runtime_batch}

\* "take data from some waiting slots": the batches promoted.
Promoted(sl, pl) ==
    LET occupancy == Cardinality({b \in Slots : pl[b].tag = "Busy"})
        remain == max_runtime_batch - Min2(max_runtime_batch, occupancy)
    IN  {b \in Slots : sl[b].tag = "Wait" /\ WaitBefore(sl, b) < remain}

RECURSIVE SendStart(_, _, _)
SendStart(sk, sl, batches) ==
    IF batches = {} THEN sk
    ELSE LET b == CHOOSE x \in batches : \A y \in batches : x <= y
         IN  SendStart(Send(sk, sl[b].ctx.id, <<EvStart>>), sl, batches \ {b})

\* Runtime::process up to the release of the two locks.
ProcessLocked ==
    /\ pc = "process"
    /\ LET killed == KillDead(slots, payloads)
           w == Reap([slots |-> slots, cache |-> cache, payloads |-> killed,
                      sink |-> sink, reaped |-> reaped], state, now, 0)
           batches == Promoted(w.slots, w.payloads)
       IN  /\ slots' = [b \in Slots |-> IF b \in batches THEN Busy ELSE w.slots[b]]
           /\ payloads' = [b \in Slots |-> IF b \in batches
                                           THEN PayloadBusy(w.slots[b].ctx)
                                           ELSE w.payloads[b]]
           /\ cache' = w.cache
           /\ sink' = SendStart(w.sink, w.slots, batches)
           /\ reaped' = w.reaped
    /\ pc' = "run"
    /\ UNCHANGED <<state, now, nreq, ret, setting, max_runtime_batch, errors,
                   locks, calls, local>>

\* ------------------------------------------------- process: the model step
\* What model.run, repeated until some output is there, can leave behind for
\* the Busy payloads: per slot the number of tokens consumed and the token
\* sampled from the output (0: no output, the input is not yet consumed).
NoOutcome == [consumed |-> 0, token |-> 0]

SlotOutcomes(payload, vocabulary) ==
    IF payload.tag # "Busy" THEN {NoOutcome}
    ELSE LET n == Len(payload.ctx.suffix)
         IN  {[consumed |-> k, token |-> 0] : k \in 0 .. (n - 1)}
             \cup {[consumed |-> n, token |-> tok] : tok \in IF n > 0 THEN vocabulary ELSE {}}

RunOutcomes(pl, vocabulary) ==
    {out \in [Slots -> UNION {SlotOutcomes(pl[b], vocabulary) : b \in Slots}] :
        /\ \A b \in Slots : out[b] \in SlotOutcomes(pl[b], vocabulary)
        /\ \E b \in Slots : out[b].token # 0}

\* Variant of LoopExit that leaves the loop after every process call.
LoopExitAlways(pl) == "parked"

\* The loop of run: leave it when every payload is Empty.
LoopExit(pl) == IF \A b \in Slots : pl[b].tag = "Empty" THEN "parked" ELSE "process"

RECURSIVE SendAll(_, _, _)
SendAll(sk, upd, batch) ==
    IF batch = max_batch THEN sk
    ELSE SendAll(IF upd[batch].events = << >> THEN sk
                 ELSE Send(sk, upd[batch].ctx.id, upd[batch].events),
                 upd, batch + 1)

\* Runtime::process after the locks are released, and the loop test of run.
ProcessStep(vocabulary) ==
    /\ pc = "run"
    /\ IF \A b \in Slots : payloads[b].tag # "Busy"
       THEN /\ pc' = LoopExit(payloads)
            /\ UNCHANGED <<state, payloads, sink>>
       ELSE \E out \in RunOutcomes(payloads, vocabulary) :
               LET busy == {b \in Slots : payloads[b].tag = "Busy"}
                   upd == [b \in busy |->
                             UpdateSlot(payloads[b].ctx,
                                        Len(payloads[b].ctx.suffix) - out[b].consumed,
                                        out[b].token, setting,
                                        is_disconnected(sink, payloads[b].ctx.id))]
                   updAll == [b \in Slots |-> IF b \in busy THEN upd[b]
                                              ELSE [ctx |-> NoCtx, events |-> << >>, done |-> FALSE]]
                   pl2 == [b \in Slots |->
                             IF b \in busy
                             THEN IF upd[b].done THEN finalize(PayloadBusy(upd[b].ctx))
                                  ELSE PayloadBusy(upd[b].ctx)
                             ELSE payloads[b]]
               IN  /\ state' = [b \in Slots |->
                                  IF b \in busy
                                  THEN state[b] \o Take(payloads[b].ctx.suffix, out[b].consumed)
                                  ELSE state[b]]
                   /\ payloads' = pl2
                   /\ sink' = SendAll(sink, updAll, 0)
                   /\ pc' = LoopExit(pl2)
    /\ UNCHANGED <<slots, cache, now, nreq, ret, reaped, setting, max_runtime_batch, errors,
                   locks, calls, local>>

\* ------------------------------------------- process: the calls that fail
\* The state of every slot after the model consumed consumed[b] tokens of
\* the suffix of its Busy payload.
Fed(st, pl, consumed) ==
    [b \in Slots |-> IF pl[b].tag = "Busy"
                     THEN st[b] \o Take(pl[b].ctx.suffix, consumed[b])
                     ELSE st[b]]

\* What the calls of model.run that returned no output for any slot can have
\* consumed: less than the whole input of every Busy payload.
NoOutputYet(pl) ==
    {consumed \in [Slots -> 0 .. (MaxLen + MaxTokens)] :
        \A b \in Slots :
            IF pl[b].tag = "Busy" THEN consumed[b] < Len(pl[b].ctx.suffix)
            ELSE consumed[b] = 0}

\* model.run(..)? returns an error, after calls that gave no output.
RunFails ==
    /\ pc = "run"
    /\ errors < MaxErrors
    /\ \E b \in Slots : payloads[b].tag = "Busy"
    /\ \E consumed \in NoOutputYet(payloads) : state' = Fed(state, payloads, consumed)
    /\ pc' = LoopExit(payloads)
    /\ errors' = errors + 1
    /\ UNCHANGED <<slots, cache, payloads, sink, now, nreq, ret, reaped, setting,
                   max_runtime_batch, locks, calls, local>>

\* model.softmax(..)? returns an error: the run loop has produced an output.
SoftmaxFails ==
    /\ pc = "run"
    /\ errors < MaxErrors
    /\ \E out \in RunOutcomes(payloads, {1}) :
          state' = Fed(state, payloads, [b \in Slots |-> out[b].consumed])
    /\ pc' = LoopExit(payloads)
    /\ errors' = errors + 1
    /\ UNCHANGED <<slots, cache, payloads, sink, now, nreq, ret, reaped, setting,
                   max_runtime_batch, locks, calls, local>>

\* The context of the payload in whose update tokenizer.decode(..)? failed:
\* prefix and suffix are recomputed and the token is pushed, nothing else.
DecodeFailed(context, remaining, token) ==
    LET model_tokens == context.prefix \o context.suffix
        len == Len(model_tokens) - remaining
    IN  [context EXCEPT !.prefix = Take(model_tokens, len),
                        !.suffix = PushToken(Drop(model_tokens, len), token)]

\* tokenizer.decode(..)? returns an error in the update of payload failed:
\* the payloads before it are updated, those after it are not reached.
DecodeFails(vocabulary) ==
    /\ pc = "run"
    /\ errors < MaxErrors
    /\ \E out \in RunOutcomes(payloads, vocabulary) :
         \E failed \in {b \in Slots : payloads[b].tag = "Busy" /\ out[b].token # 0} :
            LET before == {b \in Slots : payloads[b].tag = "Busy" /\ b < failed}
                upd == [b \in before |->
                          UpdateSlot(payloads[b].ctx,
                                     Len(payloads[b].ctx.suffix) - out[b].consumed,
                                     out[b].token, setting,
                                     is_disconnected(sink, payloads[b].ctx.id))]
                updAll == [b \in Slots |-> IF b \in before THEN upd[b]
                                           ELSE [ctx |-> NoCtx, events |-> << >>, done |-> FALSE]]
                pl2 == [b \in Slots |->
                          IF b \in before
                          THEN IF upd[b].done THEN finalize(PayloadBusy(upd[b].ctx))
                               ELSE PayloadBusy(upd[b].ctx)
                          ELSE IF b = failed
                          THEN PayloadBusy(DecodeFailed(payloads[b].ctx,
                                              Len(payloads[b].ctx.suffix) - out[b].consumed,
                                              out[b].token))
                          ELSE payloads[b]]
            IN  /\ state' = Fed(state, payloads, [b \in Slots |-> out[b].consumed])
                /\ payloads' = pl2
                /\ sink' = SendAll(sink, updAll, 0)
                /\ pc' = LoopExit(pl2)
    /\ errors' = errors + 1
    /\ UNCHANGED <<slots, cache, now, nreq, ret, reaped, setting, max_runtime_batch, locks, calls, local>>


\* run: a trigger is received, the payloads vector starts empty.
Recv ==
    /\ pc = "parked"
    /\ pc' = "process"
    /\ payloads' = [b \in Slots |-> PayloadEmpty]
    /\ UNCHANGED <<slots, cache, state, sink, now, nreq, ret, reaped, setting, max_runtime_batch, errors,
                   locks, calls, local>>

\* ----------------------------------------------------------------- callers
\* A context as a caller builds it: a fresh sink, nothing generated yet.
NewContext(id, prefix, suffix, max_tokens, stop, embed) ==
    [id |-> id, prompt_tokens |-> prefix \o suffix, prefix |-> prefix, suffix |-> suffix,
     model_text |-> << >>, output_buffer |-> << >>, model_tokens |-> << >>,
     max_tokens |-> max_tokens, stop |-> stop, embed |-> embed]

NewSink == [connected |-> TRUE, events |-> << >>]

\* A caller calls Runtime::queue.
Queue(prefix, suffix, max_tokens, stop, embed) ==
    /\ nreq < MaxReq
    /\ \E r \in {queue(slots, cache, state, now,
                         NewContext(nreq + 1, prefix, suffix, max_tokens, stop, embed))} :
          /\ slots' = r.slots
          /\ cache' = r.cache
          /\ state' = r.state
          /\ ret' = r.ret
    /\ nreq' = nreq + 1
    /\ sink' = [sink EXCEPT ![nreq + 1] = NewSink]
    /\ UNCHANGED <<payloads, now, reaped, pc, setting, max_runtime_batch, errors,
                   locks, calls, local>>

\* A caller drops the receiver of its sink.
Disconnect(id) ==
    /\ id <= nreq
    /\ sink[id].connected
    /\ sink' = [sink EXCEPT ![id].connected = FALSE]
    /\ UNCHANGED <<slots, cache, state, payloads, now, nreq, ret, reaped, pc, setting, max_runtime_batch, errors,
                   locks, calls, local>>

\* ------------------------------------------------ the locks, await by await
\* Variant of CanLock that does not wait for the holder.
CanLockAlways(l, which) == TRUE

\* Mutex::lock().await goes through when nobody holds the Mutex.
CanLock(l, which) == l[which] = NoTask

\* A caller starts a call of queue.
CallStart(c, full, max_tokens) ==
    /\ c = nreq + 1
    /\ calls[c].pc = "idle"
    /\ calls' = [calls EXCEPT ![c] = [NoCall EXCEPT !.pc = "lock_slots",
                    !.ctx = NewContext(c, << >>, full, max_tokens, << >>, FALSE)]]
    /\ sink' = [sink EXCEPT ![c] = NewSink]
    /\ nreq' = nreq + 1
    /\ UNCHANGED <<slots, cache, state, payloads, now, ret, reaped, pc, setting,
                   max_runtime_batch, errors, locks, local>>

\* Variant of QueueLockOrder that takes the cache first.
QueueLockOrderReversed == <<"backed", "slots">>

\* The order in which queue takes its two locks.
QueueLockOrder == <<"slots", "backed">>

\* self.slots.lock().await
CallLockSlots(c) ==
    /\ calls[c].pc = "lock_slots"
    /\ CanLock(locks, QueueLockOrder[1])
    /\ locks' = [locks EXCEPT ![QueueLockOrder[1]] = Caller(c)]
    /\ calls' = [calls EXCEPT ![c].pc = "lock_backed"]
    /\ UNCHANGED <<slots, cache, state, payloads, sink, now, nreq, ret, reaped, pc,
                   setting, max_runtime_batch, errors, local>>

\* self.backed.lock().await; seen records what the call finds.
CallLockBacked(c) ==
    /\ calls[c].pc = "lock_backed"
    /\ CanLock(locks, QueueLockOrder[2])
    /\ locks' = [locks EXCEPT ![QueueLockOrder[2]] = Caller(c)]
    /\ calls' = [calls EXCEPT ![c].pc = "locked",
                              ![c].seen = [slots |-> slots, cache |-> cache]]
    /\ UNCHANGED <<slots, cache, state, payloads, sink, now, nreq, ret, reaped, pc,
                   setting, max_runtime_batch, errors, local>>

\* The locks a returning call drops.
Released(l, c) ==
    [which \in {"slots", "backed"} |-> IF l[which] = Caller(c) THEN NoTask ELSE l[which]]

\* The body of queue when no slot is evicted: it has no await and returns.
CallAdmit(c) ==
    /\ calls[c].pc = "locked"
    /\ LET r == queue(slots, cache, state, now, calls[c].ctx)
       IN  /\ r.ret.choice # "Back"
           /\ slots' = r.slots
           /\ cache' = r.cache
           /\ state' = r.state
           /\ ret' = r.ret
    /\ locks' = Released(locks, c)
    /\ calls' = [calls EXCEPT ![c].pc = "returned"]
    /\ UNCHANGED <<payloads, sink, now, nreq, reaped, pc, setting, max_runtime_batch,
                   errors, local>>

\* SlotChoice::Back up to back_batch(batch).await: the checkout is done and
\* the context is swapped into the slot.
CallEvict(c) ==
    /\ calls[c].pc = "locked"
    /\ LET r == queue(slots, cache, state, now, calls[c].ctx)
           co == checkout(cache, Stem(calls[c].ctx.prefix \o calls[c].ctx.suffix))
       IN  /\ r.ret.choice = "Back"
           /\ cache' = co.cache
           /\ slots' = r.slots
           /\ calls' = [calls EXCEPT ![c].pc = "backing",
                                     ![c].admitted = r.ret.ctx,
                                     ![c].batch = r.ret.batch,
                                     ![c].content = slots[r.ret.batch].content,
                                     ![c].reload = co.reload]
    /\ UNCHANGED <<state, payloads, sink, now, nreq, ret, reaped, pc, setting,
                   max_runtime_batch, errors, locks, local>>

\* SlotChoice::Back after the await: the old state is backed under the old
\* content, the checked out state is loaded, Fault(batch) is returned.
CallEvictDone(c) ==
    /\ calls[c].pc = "backing"
    /\ cache' = CacheInsert(cache, calls[c].content, state[calls[c].batch])
    /\ state' = [state EXCEPT ![calls[c].batch] = calls[c].reload]
    /\ ret' = [kind |-> "Fault", batch |-> calls[c].batch, choice |-> "Back",
               ctx |-> calls[c].admitted]
    /\ locks' = Released(locks, c)
    /\ calls' = [calls EXCEPT ![c].pc = "returned"]
    /\ UNCHANGED <<slots, payloads, sink, now, nreq, reaped, pc, setting,
                   max_runtime_batch, errors, local>>

\* process: self.slots.lock().await
ProcessLockSlots ==
    /\ pc = "process"
    /\ CanLock(locks, "slots")
    /\ locks' = [locks EXCEPT !.slots = RunLoop]
    /\ pc' = "lock_backed"
    /\ UNCHANGED <<slots, cache, state, payloads, sink, now, nreq, ret, reaped, setting,
                   max_runtime_batch, errors, calls, local>>

\* process: self.backed.lock().await, then "kill dead payloads".
ProcessLockBacked ==
    /\ pc = "lock_backed"
    /\ CanLock(locks, "backed")
    /\ locks' = [locks EXCEPT !.backed = RunLoop]
    /\ payloads' = KillDead(slots, payloads)
    /\ pc' = "reap"
    /\ UNCHANGED <<slots, cache, state, sink, now, nreq, ret, reaped, setting,
                   max_runtime_batch, errors, calls, local>>

\* The next payload the reap loop takes.
NextDone(pl) == CHOOSE b \in Slots : pl[b].tag = "Done" /\ \A x \in Slots : pl[x].tag = "Done" => b <= x

\* The reap loop up to back_batch(batch).await: the payload is taken and the
\* slot is Idle.
ReapIdle ==
    /\ pc = "reap"
    /\ \E b \in Slots : payloads[b].tag = "Done"
    /\ LET batch == NextDone(payloads)
           context == payloads[batch].ctx
       IN  /\ payloads' = [payloads EXCEPT ![batch] = PayloadEmpty]
           /\ slots' = [slots EXCEPT ![batch] = Idle(ReapContent(context), now)]
           /\ local' = [batch |-> batch, ctx |-> context]
    /\ pc' = "reap_back"
    /\ UNCHANGED <<cache, state, sink, now, nreq, ret, reaped, setting,
                   max_runtime_batch, errors, locks, calls>>

\* The reap loop after the await: the snapshot goes into the cache.
ReapBack ==
    /\ pc = "reap_back"
    /\ cache' = CacheInsert(cache, slots[local.batch].content, state[local.batch])
    /\ sink' = IF local.ctx.embed THEN Send(sink, local.ctx.id, <<EvEmbed>>) ELSE sink
    /\ reaped' = [reaped EXCEPT ![local.batch] = local.ctx]
    /\ local' = NoLocal
    /\ pc' = "reap"
    /\ UNCHANGED <<slots, state, payloads, now, nreq, ret, setting,
                   max_runtime_batch, errors, locks, calls>>

\* "take data from some waiting slots", then the locks are dropped.
Promote ==
    /\ pc = "reap"
    /\ \A b \in Slots : payloads[b].tag # "Done"
    /\ LET batches == Promoted(slots, payloads)
       IN  /\ slots' = [b \in Slots |-> IF b \in batches THEN Busy ELSE slots[b]]
           /\ payloads' = [b \in Slots |-> IF b \in batches
                                           THEN PayloadBusy(slots[b].ctx)
                                           ELSE payloads[b]]
           /\ sink' = SendStart(sink, slots, batches)
    /\ locks' = Unlocked
    /\ pc' = "run"
    /\ UNCHANGED <<cache, state, now, nreq, ret, reaped, setting,
                   max_runtime_batch, errors, calls, local>>

\* ------------------------------------------------------------ specification
\* Runtime::new: every slot Idle and empty, an empty cache, fresh states.
Init ==
    /\ slots = [b \in Batches(NumSlots) |-> Idle(<< >>, 0)]
    /\ cache = << >>
    /\ state = [b \in Slots |-> FreshState]
    /\ payloads = [b \in Slots |-> PayloadEmpty]
    /\ sink = [id \in 1 .. MaxReq |-> [connected |-> FALSE, events |-> << >>]]
    /\ now = 0
    /\ nreq = 0
    /\ ret = NoRet
    /\ reaped = [b \in Slots |-> NoCtx]
    /\ pc = "parked"
    /\ setting = << >>
    /\ max_runtime_batch = MaxRuntimeBatch
    /\ errors = 0
    /\ locks = Unlocked
    /\ calls = [c \in 1 .. MaxReq |-> NoCall]
    /\ local = NoLocal

Inputs == SeqsUpTo(Token, MaxLen)

\* The requests run against each other: no stop strings, receivers stay alive;
\* all of it within one tick of the clock.
Next ==
    \/ \E full \in Inputs, max_tokens \in 1 .. MaxTokens, embed \in BOOLEAN :
          Queue(<< >>, full, max_tokens, << >>, embed)
    \/ Recv
    \/ ProcessLocked
    \/ ProcessStep(Token)

Spec == Init /\ [][Next]_vars

\* --------------------------------------------- specification: one queue call
\* One call of queue in any state of the slot table and the cache the program
\* can be in.  A slot that is Idle with content was reaped or is as created:
\* its content is a key of the cache, slots as created are no younger than
\* reaped ones and are created in index order.
Contents == SeqsUpTo(Token, MaxLen - 1)

WaitingContext == NewContext(0, << >>, <<1>>, 1, << >>, FALSE)

RunningContext == [NewContext(0, << >>, <<1>>, 1, << >>, FALSE) EXCEPT !.prefix = <<1>>, !.suffix = <<2>>]

SlotStates ==
    {Idle(content, since) : content \in Contents, since \in 0 .. MaxTime}
        \cup {Wait(WaitingContext), Busy}

CreationOrder(sl) ==
    \A a, b \in DOMAIN sl :
        (sl[a].tag = "Idle" /\ sl[b].tag = "Idle" /\ sl[a].content = << >>
            /\ (a < b \/ sl[b].content # << >>)) => sl[a].since <= sl[b].since

InitQ ==
    /\ slots \in {sl \in [Batches(NumSlots) -> SlotStates] : CreationOrder(sl)}
    /\ \E extra \in {{}} \cup UNION {{{k, j} : j \in {x \in Contents : StartsWith(x, k)}} :
                                           k \in Contents \ {<< >>}} :
          cache = [k \in extra \cup {slots[b].content :
                                       b \in {x \in Slots : slots[x].tag = "Idle"
                                                            /\ slots[x].content # << >>}}
                     |-> k]
    /\ state = [b \in Slots |->
                  CASE slots[b].tag = "Idle" -> slots[b].content
                    [] slots[b].tag = "Wait" -> slots[b].ctx.prefix
                    [] OTHER -> RunningContext.prefix]
    /\ payloads = [b \in Slots |-> IF slots[b].tag = "Busy" THEN PayloadBusy(RunningContext)
                                   ELSE PayloadEmpty]
    /\ sink = [id \in 1 .. MaxReq |-> [connected |-> FALSE, events |-> << >>]]
    /\ now = MaxTime
    /\ nreq = 0
    /\ ret = NoRet
    /\ reaped = [b \in Slots |-> NoCtx]
    /\ pc = "run"
    /\ setting = << >>
    /\ max_runtime_batch = MaxRuntimeBatch
    /\ errors = 0
    /\ locks = Unlocked
    /\ calls = [c \in 1 .. MaxReq |-> NoCall]
    /\ local = NoLocal

NextQ ==
    \E full \in Inputs, k \in 0 .. MaxLen :
        /\ nreq = 0
        /\ k <= Len(full)
        /\ Queue(Take(full, k), Drop(full, k), 1, << >>, FALSE)

SpecQ == InitQ /\ [][NextQ]_vars

\* ------------------------------------------- specification: one generation
\* One request from its admission to its reap: any token of the vocabulary at
\* every step, stop strings in the request and in the setting, the receiver
\* may be dropped.
Vocabulary == 1 .. 5

StopStrings == {<<1>>, <<1, 2>>, <<2, 1>>, <<1, 1, 2>>}

StopLists == {<< >>} \cup {<<s>> : s \in StopStrings}

InitGen ==
    /\ slots = [b \in Batches(NumSlots) |-> Idle(<< >>, 0)]
    /\ cache = << >>
    /\ state = [b \in Slots |-> FreshState]
    /\ payloads = [b \in Slots |-> PayloadEmpty]
    /\ sink = [id \in 1 .. MaxReq |-> [connected |-> FALSE, events |-> << >>]]
    /\ now = 0
    /\ nreq = 0
    /\ ret = NoRet
    /\ reaped = [b \in Slots |-> NoCtx]
    /\ pc = "parked"
    /\ setting \in {<< >>, << <<2, 2>> >>}
    /\ max_runtime_batch = MaxRuntimeBatch
    /\ errors = 0
    /\ locks = Unlocked
    /\ calls = [c \in 1 .. MaxReq |-> NoCall]
    /\ local = NoLocal

Live(id) ==
    \/ \E b \in Slots : slots[b].tag = "Wait" /\ slots[b].ctx.id = id
    \/ \E b \in Slots : payloads[b].tag = "Busy" /\ payloads[b].ctx.id = id

NextGen ==
    \/ \E max_tokens \in 1 .. MaxStream, stop \in StopLists, embed \in BOOLEAN :
          nreq = 0 /\ Queue(<< >>, <<1>>, max_tokens, stop, embed)
    \/ Recv
    \/ ProcessLocked
    \/ ProcessStep(Vocabulary)
    \/ \E id \in 1 .. MaxReq : Live(id) /\ Disconnect(id)

SpecGen == InitGen /\ [][NextGen]_vars


\* ------------------------------- specification: batches, hang-ups, failures
\* Two requests with short prompts on a runtime built with any
\* max_runtime_batch.
Prompts == SeqsUpTo(Token, MaxPrompt)

InitRun ==
    /\ slots = [b \in Batches(NumSlots) |-> Idle(<< >>, 0)]
    /\ cache = << >>
    /\ state = [b \in Slots |-> FreshState]
    /\ payloads = [b \in Slots |-> PayloadEmpty]
    /\ sink = [id \in 1 .. MaxReq |-> [connected |-> FALSE, events |-> << >>]]
    /\ now = 0
    /\ nreq = 0
    /\ ret = NoRet
    /\ reaped = [b \in Slots |-> NoCtx]
    /\ pc = "parked"
    /\ setting = << >>
    /\ max_runtime_batch \in 1 .. NumSlots
    /\ errors = 0
    /\ locks = Unlocked
    /\ calls = [c \in 1 .. MaxReq |-> NoCall]
    /\ local = NoLocal

\* Callers that hang up, process calls that all return Ok.
NextBatch ==
    \/ \E full \in Prompts, max_tokens \in 1 .. MaxTokens :
          Queue(<< >>, full, max_tokens, << >>, FALSE)
    \/ Recv
    \/ ProcessLocked
    \/ ProcessStep(Token)
    \/ \E id \in 1 .. MaxReq : Live(id) /\ Disconnect(id)

SpecBatch == InitRun /\ [][NextBatch]_vars

\* Callers that stay, process calls of which up to MaxErrors return an error.
NextErr ==
    \/ \E full \in Prompts, max_tokens \in 1 .. MaxTokens :
          Queue(<< >>, full, max_tokens, << >>, FALSE)
    \/ Recv
    \/ ProcessLocked
    \/ ProcessStep(Token)
    \/ RunFails
    \/ SoftmaxFails
    \/ DecodeFails(Token)

SpecErr == InitRun /\ [][NextErr]_vars


\* ------------------------------- specification: callers that keep coming
\* A runtime with one slot more than batches it runs at once and one caller
\* more; a caller makes its next request when its last one has left the slot
\* table, for ever.  The run loop is scheduled fairly and finds a trigger
\* whenever it parks; no call fails.
Callers == 1 .. (MaxReq + 1)

\* The request of caller id is in a slot or in a payload.
InFlight(id) ==
    \E b \in Slots :
        \/ slots[b].tag = "Wait" /\ slots[b].ctx.id = id
        \/ payloads[b].tag # "Empty" /\ payloads[b].ctx.id = id

\* Caller id calls Runtime::queue with its next request; the calls are not
\* counted.
Request(id, full, max_tokens) ==
    /\ ~InFlight(id)
    /\ \E r \in {queue(slots, cache, state, now,
                         NewContext(id, << >>, full, max_tokens, << >>, FALSE))} :
          /\ slots' = r.slots
          /\ cache' = r.cache
          /\ state' = r.state
          /\ ret' = r.ret
    /\ sink' = [sink EXCEPT ![id] = NewSink]
    /\ UNCHANGED <<payloads, now, nreq, reaped, pc, setting, max_runtime_batch, errors,
                   locks, calls, local>>

InitFair ==
    /\ slots = [b \in Batches(NumSlots + 1) |-> Idle(<< >>, 0)]
    /\ cache = << >>
    /\ state = [b \in Slots |-> FreshState]
    /\ payloads = [b \in Slots |-> PayloadEmpty]
    /\ sink = [id \in Callers |-> [connected |-> FALSE, events |-> << >>]]
    /\ now = 0
    /\ nreq = 0
    /\ ret = NoRet
    /\ reaped = [b \in Slots |-> NoCtx]
    /\ pc = "parked"
    /\ setting = << >>
    /\ max_runtime_batch = MaxRuntimeBatch
    /\ errors = 0
    /\ locks = Unlocked
    /\ calls = [c \in 1 .. MaxReq |-> NoCall]
    /\ local = NoLocal

NextFair ==
    \/ \E id \in Callers : Request(id, <<1>>, 1)
    \/ Recv
    \/ ProcessLocked
    \/ ProcessStep(Token)

Fairness ==
    /\ WF_vars(Recv)
    /\ WF_vars(ProcessLocked)
    /\ WF_vars(ProcessStep(Token))

SpecFair == InitFair /\ [][NextFair]_vars /\ Fairness


\* ------------------------------ specification: requests run to their end
\* Two requests, also with max_tokens = 0, on a runtime built with any
\* max_runtime_batch; callers may hang up.  The run loop is scheduled fairly
\* and finds a trigger whenever it parks, no call fails, and the model
\* gives every Busy payload an output again and again.
Samples(b) ==
    /\ ProcessStep(Token)
    /\ payloads[b].tag = "Busy"
    /\ payloads'[b].ctx.model_tokens # payloads[b].ctx.model_tokens

NextTerm ==
    \/ \E max_tokens \in 0 .. MaxTokens : Queue(<< >>, <<1, 2>>, max_tokens, << >>, FALSE)
    \/ Recv
    \/ ProcessLocked
    \/ ProcessStep(Token)
    \/ \E id \in 1 .. MaxReq : Live(id) /\ Disconnect(id)

FairnessTerm ==
    /\ WF_vars(Recv)
    /\ WF_vars(ProcessLocked)
    /\ WF_vars(ProcessStep(Token))
    /\ \A b \in Batches(NumSlots) : SF_vars(Samples(b))

SpecTerm == InitRun /\ [][NextTerm]_vars /\ FairnessTerm


\* --------------------------------------- specification: the locks, by await
\* Two callers and the run loop, each call of queue and each locked section
\* of process taken one await at a time.
\* The runtime after earlier requests: every slot Idle with a short content,
\* reaped into the cache.
InitLock ==
    /\ \E content \in [Batches(NumSlots) -> SeqsUpTo(Token, 1)] :
          /\ slots = [b \in Batches(NumSlots) |-> Idle(content[b], 0)]
          /\ state = [b \in Batches(NumSlots) |-> FeedFresh(content[b])]
          /\ cache = [k \in {content[b] : b \in Batches(NumSlots)} \ {<< >>} |-> FeedFresh(k)]
    /\ payloads = [b \in Slots |-> PayloadEmpty]
    /\ sink = [id \in 1 .. MaxReq |-> [connected |-> FALSE, events |-> << >>]]
    /\ now = 0
    /\ nreq = 0
    /\ ret = NoRet
    /\ reaped = [b \in Slots |-> NoCtx]
    /\ pc = "parked"
    /\ setting = << >>
    /\ max_runtime_batch = MaxRuntimeBatch
    /\ errors = 0
    /\ locks = Unlocked
    /\ calls = [c \in 1 .. MaxReq |-> NoCall]
    /\ local = NoLocal

NextLock ==
    \/ \E c \in 1 .. MaxReq, full \in Prompts \ {<< >>} : CallStart(c, full, 1)
    \/ \E c \in 1 .. MaxReq : CallLockSlots(c)
    \/ \E c \in 1 .. MaxReq : CallLockBacked(c)
    \/ \E c \in 1 .. MaxReq : CallAdmit(c)
    \/ \E c \in 1 .. MaxReq : CallEvict(c)
    \/ \E c \in 1 .. MaxReq : CallEvictDone(c)
    \/ Recv
    \/ ProcessLockSlots
    \/ ProcessLockBacked
    \/ ReapIdle
    \/ ReapBack
    \/ Promote
    \/ ProcessStep(Token)

SpecLock == InitLock /\ [][NextLock]_vars

\* The same with one prompt, for ever: the run loop finds a trigger whenever
\* it parks.  Every task that can take a step takes one; Mutex hands the
\* lock to its waiters in the order they came, so that a waiter that finds
\* the lock free again and again gets it; back_batch and load_batch return.
NextLockFair ==
    \/ \E c \in 1 .. MaxReq : CallStart(c, <<1, 2>>, 1)
    \/ \E c \in 1 .. MaxReq : CallLockSlots(c)
    \/ \E c \in 1 .. MaxReq : CallLockBacked(c)
    \/ \E c \in 1 .. MaxReq : CallAdmit(c)
    \/ \E c \in 1 .. MaxReq : CallEvict(c)
    \/ \E c \in 1 .. MaxReq : CallEvictDone(c)
    \/ Recv
    \/ ProcessLockSlots
    \/ ProcessLockBacked
    \/ ReapIdle
    \/ ReapBack
    \/ Promote
    \/ ProcessStep(Token)

\* A step of a queue call that holds a lock.
CallerStep ==
    \E c \in 1 .. MaxReq : CallLockBacked(c) \/ CallAdmit(c) \/ CallEvict(c) \/ CallEvictDone(c)

\* A step of the run loop other than the wait for the first lock.
RunLoopStep ==
    Recv \/ ProcessLockBacked \/ ReapIdle \/ ReapBack \/ Promote \/ ProcessStep(Token)

FairnessLock ==
    /\ WF_vars(CallerStep)
    /\ WF_vars(RunLoopStep)
    /\ SF_vars(ProcessLockSlots)
    /\ \A c \in 1 .. MaxReq : SF_vars(CallLockSlots(c))

SpecLockFair == InitLock /\ [][NextLockFair]_vars /\ FairnessLock

\* ========================================================= queue: the claims
\* A step that is one call of queue; its input is ret'.ctx.prompt_tokens.
QueueStep == nreq' = nreq + 1

IsIdle(b) == slots[b].tag = "Idle"

\* The order of the claim on Idle slots, for the stem of an input.
ClaimKind(b, stem) ==
    IF slots[b].content # << >> /\ StartsWith(stem, slots[b].content) THEN "Continue"
    ELSE IF slots[b].content = << >> THEN "Empty" ELSE "Back"

ClaimRank(b, stem) ==
    CASE ClaimKind(b, stem) = "Continue" -> 3
      [] ClaimKind(b, stem) = "Empty" -> 2
      [] OTHER -> 1

\* Slot o comes before slot b when idleness is measured by older(o, b).
Beats(o, b, stem, older(_, _)) ==
    \/ ClaimRank(o, stem) > ClaimRank(b, stem)
    \/ /\ ClaimRank(o, stem) = 3 /\ ClaimRank(b, stem) = 3
       /\ Len(slots[o].content) > Len(slots[b].content)
    \/ /\ ClaimRank(o, stem) = ClaimRank(b, stem)
       /\ Len(slots[o].content) = Len(slots[b].content) \/ ClaimRank(o, stem) # 3
       /\ older(o, b)

IdleLonger(o, b) == slots[o].since < slots[b].since

IdleLongerMillis(o, b) == ElapsedMillis(slots[o].since, now) > ElapsedMillis(slots[b].since, now)

ChoosesMaximal(older(_, _)) ==
    (QueueStep /\ ret'.ctx.prompt_tokens # << >> /\ \E b \in Slots : IsIdle(b)) =>
        /\ ret'.kind \in {"Success", "Fault"}
        /\ IsIdle(ret'.batch)
        /\ \A o \in Slots :
              IsIdle(o) => ~Beats(o, ret'.batch, Stem(ret'.ctx.prompt_tokens), older)

\* C1: queue admits into an Idle slot that is maximal under Continue > Empty >
\* Back, longer content first among Continue, the slot idle longer first among
\* slots of equal rank; a slot in Wait or Busy is never chosen.
C1_MaximalIdleLongest == [][ChoosesMaximal(IdleLonger)]_vars

\* C1, with idleness measured as the code measures it, in whole milliseconds:
\* this much of the claim holds.
C1_MaximalByMillis == [][ChoosesMaximal(IdleLongerMillis)]_vars

\* The longest key of the cache that is a prefix of q; empty when none is.
LongestKey(c, q) ==
    LET keys == {k \in DOMAIN c : StartsWith(q, k)}
    IN  IF keys = {} THEN << >>
        ELSE CHOOSE k \in keys : \A j \in keys : Len(j) <= Len(k)

FaultLoads(q(_)) ==
    (QueueStep /\ ret'.kind = "Fault") =>
        LET full == ret'.ctx.prompt_tokens
            key == LongestKey(cache, q(full))
        IN  /\ slots'[ret'.batch].ctx.prefix = key
            /\ slots'[ret'.batch].ctx.suffix = Drop(full, Len(key))
            /\ key \o slots'[ret'.batch].ctx.suffix = full
            /\ state'[ret'.batch] = IF key \in DOMAIN cache THEN cache[key] ELSE FreshState

Whole(full) == full

\* C3 as claimed: on Fault(b) the admitted prefix is the longest cached key
\* that is a prefix of full, the suffix the rest of full, and the state loaded
\* into b the cached state of that key (fresh on a miss).
C3_LongestKeyOfFull == [][FaultLoads(Whole)]_vars

\* C3 amended: on Fault(b) the admitted prefix is the longest cached key that
\* is a prefix of the stem (full without its last token), the suffix the rest
\* of full, and the state loaded into b the cached state of that key (fresh
\* on a miss).
C3_LongestKeyOfStem == [][FaultLoads(Stem)]_vars

\* C3's case: a Fault that found a key in the cache.
C3_Witness == ret.kind = "Fault" /\ Len(ret.ctx.prefix) = 2 /\ state[ret.batch] = ret.ctx.prefix

\* C5: evicting an Idle slot b with content c (Back) leaves cache[c] the
\* snapshot of b's state from before the load, b in Wait with the new context,
\* every other slot as it was and returns Fault(b); when only Back slots are
\* candidates the one idle longest is evicted.
C5_EvictionBacksLongestIdle ==
    [][(QueueStep /\ ret'.choice = "Back") =>
          LET b == ret'.batch
              c == slots[b].content
              stem == Stem(ret'.ctx.prompt_tokens)
          IN  /\ IsIdle(b) /\ c # << >> /\ ~StartsWith(stem, c)
              /\ c \in DOMAIN cache' /\ cache'[c] = state[b]
              /\ slots'[b] = Wait(ret'.ctx)
              /\ ret'.ctx.prefix \o ret'.ctx.suffix = ret'.ctx.prompt_tokens
              /\ \A o \in Slots \ {b} : slots'[o] = slots[o]
              /\ ret'.kind = "Fault"
              /\ (\A o \in Slots : IsIdle(o) => ClaimKind(o, stem) = "Back")
                    => \A o \in Slots : IsIdle(o) => ~IdleLonger(o, b)]_vars

\* C5 without its last sentence: this much of the claim holds.
C5_EvictionBacks ==
    [][(QueueStep /\ ret'.choice = "Back") =>
          LET b == ret'.batch
              c == slots[b].content
          IN  /\ IsIdle(b) /\ c # << >> /\ ~StartsWith(Stem(ret'.ctx.prompt_tokens), c)
              /\ c \in DOMAIN cache' /\ cache'[c] = state[b]
              /\ slots'[b] = Wait(ret'.ctx)
              /\ \A o \in Slots \ {b} : slots'[o] = slots[o]
              /\ ret'.kind = "Fault"]_vars

\* C6: Success(b) means b was Idle with non-empty content of length k, a prefix
\* of the input without its last token; b is then Wait with prefix full[:k] and
\* suffix full[k:]; the cache, every model state and every other slot are as
\* before.
C6_SuccessReusesSlot ==
    [][(QueueStep /\ ret'.kind = "Success") =>
          LET b == ret'.batch
              full == ret'.ctx.prompt_tokens
              k == Len(slots[b].content)
          IN  /\ IsIdle(b) /\ k > 0 /\ StartsWith(Stem(full), slots[b].content)
              /\ slots'[b].tag = "Wait"
              /\ slots'[b].ctx.prefix = Take(full, k)
              /\ slots'[b].ctx.suffix = Drop(full, k)
              /\ slots'[b].ctx.id = ret'.ctx.id
              /\ cache' = cache
              /\ state' = state
              /\ \A o \in Slots \ {b} : slots'[o] = slots[o]]_vars

\* C6's case: a Success that reuses two tokens and leaves two to feed.
C6_Witness ==
    /\ ret.kind = "Success" /\ Len(ret.ctx.prefix) = 2 /\ Len(ret.ctx.suffix) = 1
    /\ slots[ret.batch].tag = "Wait"

\* C7: a call that admits nothing changes nothing: an empty input gives Error,
\* a non-empty input with no Idle slot gives Failure with a context whose
\* prefix ++ suffix is the input; slots, cache and model states stay as they
\* were.
C7_NothingAdmittedNothingChanged ==
    [][QueueStep =>
          LET full == ret'.ctx.prompt_tokens
          IN  /\ full = << >> => ret'.kind = "Error"
              /\ (full # << >> /\ \A b \in Slots : ~IsIdle(b)) =>
                    /\ ret'.kind = "Failure"
                    /\ ret'.ctx.prefix \o ret'.ctx.suffix = full
              /\ ret'.kind \in {"Error", "Failure"} =>
                    /\ slots' = slots /\ cache' = cache /\ state' = state
                    /\ full = << >> \/ \A b \in Slots : ~IsIdle(b)]_vars

\* C7's case: a Failure handing back an input of three tokens.
C7_Witness ==
    /\ ret.kind = "Failure" /\ Len(ret.ctx.suffix) = 3
    /\ \A b \in Slots : slots[b].tag # "Idle"

\* ====================================================== lifecycle: the claims
\* C2: a context queue places in a slot has a non-empty suffix ending in the
\* last token of the input; at the start of every process step every Wait
\* context and every Busy payload context has at least one token in its suffix.
C2_SuffixNeverEmpty ==
    /\ ret.kind \in {"Success", "Fault"} =>
          /\ ret.ctx.suffix # << >>
          /\ ret.ctx.suffix[Len(ret.ctx.suffix)]
                = ret.ctx.prompt_tokens[Len(ret.ctx.prompt_tokens)]
    /\ pc = "process" =>
          \A b \in Slots :
              /\ slots[b].tag = "Wait" => Len(slots[b].ctx.suffix) >= 1
              /\ payloads[b].tag = "Busy" => Len(payloads[b].ctx.suffix) >= 1

\* C2's case: a process step starts with one context generating and another,
\* just admitted, waiting.
C2_Witness ==
    /\ pc = "process"
    /\ \E b \in Slots : payloads[b].tag = "Busy" /\ payloads[b].ctx.model_tokens # << >>
    /\ \E b \in Slots : slots[b].tag = "Wait" /\ Len(slots[b].ctx.prompt_tokens) > 1

\* Request A, reaped out of slot b after sampling exactly two tokens.
ReapedAfterTwo(b) == reaped[b].id # 0 /\ Len(reaped[b].model_tokens) = 2

\* C4 as claimed: after A (prompt P, sampled t1, t2) was reaped, a request with
\* prompt P ++ [t1] is admitted with a reused prefix of length >= |P|.
C4_ReusesPromptOfA ==
    [][\A b \in Slots :
          (/\ QueueStep /\ ReapedAfterTwo(b)
           /\ ret'.ctx.prompt_tokens
                 = reaped[b].prompt_tokens \o <<reaped[b].model_tokens[1]>>)
          => /\ ret'.kind \in {"Success", "Fault"}
             /\ Len(ret'.ctx.prefix) >= Len(reaped[b].prompt_tokens)]_vars

\* C4 amended: after A (prompt P, sampled t1, t2) was reaped its snapshot is
\* cached under P ++ [t1], the content its slot is left Idle with; a request
\* with prompt P ++ [t1, x], queued while that slot is still Idle with that
\* content, is admitted as Success with the reused prefix P ++ [t1], of length
\* |P| + 1 >= |P|, and only x is left to feed.
C4_ReusesSnapshotOfA ==
    [][\A b \in Slots : ReapedAfterTwo(b) =>
          LET P == reaped[b].prompt_tokens
              key == P \o <<reaped[b].model_tokens[1]>>
          IN  /\ reaped[b].prefix = key
              /\ key \in DOMAIN cache
              /\ \A x \in Token :
                    (/\ QueueStep
                     /\ slots[b].tag = "Idle" /\ slots[b].content = key
                     /\ ret'.ctx.prompt_tokens = key \o <<x>>)
                    => /\ ret'.kind = "Success"
                       /\ ret'.ctx.prefix = key
                       /\ ret'.ctx.suffix = <<x>>
                       /\ Len(ret'.ctx.prefix) >= Len(P)]_vars

\* C4's case: B was admitted onto the prefix that A left behind.
C4_Witness ==
    \E b \in Slots :
        /\ ReapedAfterTwo(b)
        /\ ret.kind = "Success" /\ ret.ctx.id # reaped[b].id
        /\ ret.ctx.prefix = reaped[b].prefix
        /\ ret.ctx.prompt_tokens = reaped[b].prefix \o ret.ctx.suffix

\* ====================================================== generation: the claims
\* The contexts of the requests that were promoted: generating, finished, or
\* reaped out of their slot.
Generating == {payloads[b].ctx : b \in {x \in Slots : payloads[x].tag = "Busy"}}

Finished ==
    {payloads[b].ctx : b \in {x \in Slots : payloads[x].tag = "Done"}}
        \cup {reaped[b] : b \in {x \in Slots : reaped[x].id # 0}}

WasReaped(id) == \E b \in Slots : reaped[b].id = id

Events(id) == sink[id].events

\* The concatenation of the payloads of the Token::Token events of a sequence.
RECURSIVE TokenText(_)
TokenText(events) ==
    IF events = << >> THEN << >>
    ELSE (IF events[1].type = "Token" THEN events[1].text ELSE << >>)
            \o TokenText(Tail(events))

CountOf(events, type) == Cardinality({i \in 1 .. Len(events) : events[i].type = type})

OnlyBefore(events, i, types) == \A j \in 1 .. (i - 1) : events[j].type \in types

\* Start first, Token::Token only between Start and Stop, at most one Stop,
\* Done right behind it.
StartTokensStopDone(events) ==
    \A i \in 1 .. Len(events) :
        /\ (events[i].type = "Start") = (i = 1)
        /\ events[i].type \in {"Token", "Stop"} => OnlyBefore(events, i, {"Start", "Token"})
        /\ events[i].type = "Stop" => i < Len(events) /\ events[i + 1].type = "Done"
        /\ events[i].type = "Done" => i > 1 /\ events[i - 1].type = "Stop"

\* C8 as claimed: on a sink that stays connected the events are Start, then
\* Token::Token events, then exactly one Stop immediately followed by Done,
\* and nothing of any kind is delivered after Done.
C8_NothingAfterDone ==
    \A id \in 1 .. nreq : sink[id].connected =>
        LET e == Events(id)
        IN  /\ StartTokensStopDone(e)
            /\ \A i \in 1 .. Len(e) : e[i].type = "Done" => i = Len(e)
            /\ \A ctx \in Finished : ctx.id = id =>
                  /\ Len(e) >= 3
                  /\ e[Len(e) - 1].type = "Stop" /\ e[Len(e)].type = "Done"

\* C8 amended: on a sink that stays connected the events are Start, then
\* Token::Token events, then exactly one Stop immediately followed by Done;
\* these are the last two events of a request without the embed flag; for a
\* request with the embed flag one more event, Token::Embed, is delivered
\* after Done, when the request is reaped, and it is the last.
C8_EventOrder ==
    \A id \in 1 .. nreq : sink[id].connected =>
        LET e == Events(id)
            n == Len(e)
        IN  /\ StartTokensStopDone(e)
            /\ \A i \in 1 .. n :
                  /\ e[i].type = "Done" =>
                        i = n \/ (i = n - 1 /\ e[n].type = "Embed")
                  /\ e[i].type = "Embed" =>
                        /\ i = n /\ i > 1 /\ e[i - 1].type = "Done"
                        /\ \E b \in Slots : reaped[b].id = id /\ reaped[b].embed
            /\ \A ctx \in Finished : ctx.id = id =>
                  /\ n >= 3
                  /\ CountOf(e, "Stop") = 1
                  /\ IF WasReaped(id) /\ ctx.embed
                     THEN n >= 4 /\ e[n - 2].type = "Stop" /\ e[n - 1].type = "Done"
                          /\ e[n].type = "Embed"
                     ELSE e[n - 1].type = "Stop" /\ e[n].type = "Done"

\* C8's case: a request with the embed flag went through promotion, some
\* Token::Token events, its stop and its reap with the sink connected.
C8_Witness ==
    \E id \in 1 .. nreq :
        /\ sink[id].connected
        /\ \E b \in Slots : reaped[b].id = id /\ reaped[b].embed
        /\ CountOf(Events(id), "Token") >= 2
        /\ Events(id)[Len(Events(id))].type = "Embed"

\* stop occurs in stream at offset i (0-based).
Occurs(stop, stream, i) ==
    /\ i + Len(stop) <= Len(stream)
    /\ \A k \in 1 .. Len(stop) : stream[i + k] = stop[k]

Minimum(S) == CHOOSE x \in S : \A y \in S : x <= y

\* The ends of the occurrences of the stop strings in stream.
OccurrenceEnds(stops, stream) ==
    UNION {{i + Len(stops[k]) : i \in {x \in 0 .. Len(stream) : Occurs(stops[k], stream, x)}} :
           k \in 1 .. Len(stops)}

\* The start of the occurrence that is completed first.
FirstOccurrence(stops, stream) ==
    LET end == Minimum(OccurrenceEnds(stops, stream))
    IN  Minimum({i \in 0 .. Len(stream) :
                    \E k \in 1 .. Len(stops) :
                        Occurs(stops[k], stream, i) /\ i + Len(stops[k]) = end})

\* C9 as claimed: once a stop string of the request or of the setting occurs
\* in the generated byte stream, the request has finished with Stop(Stop) on
\* the step that completed the first occurrence, and the Token::Token payloads
\* together are the stream up to the start of that occurrence.
C9_TruncatedAtFirstStop ==
    \A ctx \in Generating \cup Finished : sink[ctx.id].connected =>
        LET stops == ctx.stop \o setting
            stream == ctx.model_text
            e == Events(ctx.id)
        IN  OccurrenceEnds(stops, stream) # {} =>
               /\ ctx \in Finished
               /\ \E i \in 1 .. Len(e) : e[i].type = "Stop" /\ e[i].reason = "Stop"
               /\ TokenText(e) = Utf8Lossy(Take(stream, FirstOccurrence(stops, stream)))

\* Every sampled token decodes to valid UTF-8 on its own.
ValidTokens(ctx) == \A i \in 1 .. Len(ctx.model_tokens) : IsUtf8(Decode(ctx.model_tokens[i]))

\* C10 as claimed: with no stop strings, tokens that each decode to valid
\* UTF-8, a connected sink and max_tokens = n, a finished request has emitted
\* exactly n Token::Token events carrying the text of all n sampled tokens,
\* then Stop(Length) with completion_tokens = n, then Done.
C10_LengthEmitsEveryToken ==
    \A ctx \in Finished :
        (/\ sink[ctx.id].connected
         /\ ctx.stop \o setting = << >>
         /\ ValidTokens(ctx))
        => LET e == Events(ctx.id)
               n == ctx.max_tokens
           IN  /\ Len(ctx.model_tokens) = n
               /\ CountOf(e, "Token") = n
               /\ TokenText(e) = ctx.model_text
               /\ Len(e) >= n + 3
               /\ e[n + 2].type = "Stop" /\ e[n + 2].reason = "Length"
               /\ e[n + 2].completion_tokens = n
               /\ e[n + 3].type = "Done"

\* ======================================== hang-ups, batches, failures: the claims
\* A step that is the part of a process call after its locked section.
UpdateStep == pc = "run" /\ pc' # "run"

\* A step that is the locked section of a process call.
LockedStep == pc = "process" /\ pc' = "run"

\* The request in payload b is generating and its receiver is gone.
HungUp(b) == payloads[b].tag = "Busy" /\ ~sink[payloads[b].ctx.id].connected

\* The step sampled a token for payload b.
Sampled(b) == Len(payloads'[b].ctx.suffix) > 0
                 /\ payloads'[b].ctx.prefix = payloads[b].ctx.prefix \o payloads[b].ctx.suffix

\* C11 as claimed: the process step after the receiver of a Busy request was
\* dropped makes the payload Done, whether or not the step samples a token
\* for the slot.
C11_DoneInTheNextStep ==
    [][\A b \in Slots : (UpdateStep /\ HungUp(b)) => payloads'[b].tag = "Done"]_vars

\* C11 amended: after the receiver of a Busy request was dropped, the first
\* process step that samples a token for its slot makes the payload Done; a
\* step that samples none for it (its input is still being fed while another
\* slot gives an output) leaves it Busy.  The following reap makes the slot
\* Idle, and from the hang-up on nothing is delivered on the sink.
C11_DoneWhenNextSampled ==
    [][/\ \A b \in Slots : (UpdateStep /\ HungUp(b)) =>
             IF Sampled(b) THEN payloads'[b].tag = "Done"
             ELSE payloads'[b].tag = "Busy"
       /\ \A b \in Slots :
             (LockedStep /\ payloads[b].tag = "Done" /\ ~sink[payloads[b].ctx.id].connected)
             => slots'[b].tag = "Idle" /\ payloads'[b].tag = "Empty"
       /\ \A id \in 1 .. nreq :
             ~sink[id].connected => sink'[id].events = sink[id].events]_vars

\* C11's case: a request whose receiver was dropped while it was generating
\* has been reaped without a Stop, and its slot is Idle.
C11_Witness ==
    \E b \in Slots :
        /\ reaped[b].id # 0 /\ ~sink[reaped[b].id].connected
        /\ slots[b].tag = "Idle"
        /\ \E i \in 1 .. Len(Events(reaped[b].id)) : Events(reaped[b].id)[i].type = "Token"
        /\ \A i \in 1 .. Len(Events(reaped[b].id)) : Events(reaped[b].id)[i].type # "Stop"

\* A step that is a process call returning an error.
ErrorStep == errors' = errors + 1

\* C12 as claimed: when a process call returns an error, every Busy payload
\* holds its context as before the call, its slot is still Busy, and the run
\* loop calls process again.
C12_ErrorKeepsContexts ==
    [][ErrorStep =>
          /\ \A b \in Slots : payloads[b].tag = "Busy" =>
                /\ payloads'[b] = payloads[b]
                /\ slots'[b].tag = "Busy"
          /\ pc' = "process"]_vars

\* C14 as claimed: the state of a slot is what feeding its label gives: the
\* content of an Idle slot, the prefix of a Wait, Busy or Done context; and
\* every cache entry holds what feeding its key gives.
C14_LabelStateCoherence ==
    /\ \A b \in Slots :
          /\ slots[b].tag = "Idle" => state[b] = FeedFresh(slots[b].content)
          /\ slots[b].tag = "Wait" => state[b] = FeedFresh(slots[b].ctx.prefix)
          /\ (slots[b].tag = "Busy" /\ payloads[b].tag \in {"Busy", "Done"})
                => state[b] = FeedFresh(payloads[b].ctx.prefix)
    /\ \A k \in DOMAIN cache : cache[k] = FeedFresh(k)

\* The tokens of a context, fed or still to feed.
AllTokens(ctx) == ctx.prefix \o ctx.suffix

\* C17 as claimed: at the end of every process step prefix ++ suffix of
\* every context is the admitted input followed by model_tokens; nothing is
\* removed from prefix ++ suffix or from prefix; a sampled token is appended
\* to suffix in the step that sampled it, once, and moves into prefix in a
\* later step.
C17_TokensOnlyMoveForward ==
    [][\A b \in Slots :
          /\ payloads'[b].tag \in {"Busy", "Done"} =>
                AllTokens(payloads'[b].ctx)
                   = payloads'[b].ctx.prompt_tokens \o payloads'[b].ctx.model_tokens
          /\ (payloads[b].tag = "Busy" /\ payloads'[b].tag \in {"Busy", "Done"}) =>
                LET old == payloads[b].ctx
                    new == payloads'[b].ctx
                IN  /\ StartsWith(AllTokens(new), AllTokens(old))
                    /\ StartsWith(new.prefix, old.prefix)
                    /\ StartsWith(AllTokens(old), new.prefix)
                    /\ StartsWith(new.model_tokens, old.model_tokens)
                    /\ Len(AllTokens(new)) - Len(AllTokens(old))
                          = Len(new.model_tokens) - Len(old.model_tokens)
                    /\ Len(new.model_tokens) - Len(old.model_tokens) \in {0, 1}
                    /\ Len(new.model_tokens) > Len(old.model_tokens) =>
                          /\ new.prefix = AllTokens(old)
                          /\ new.suffix = <<new.model_tokens[Len(new.model_tokens)]>>]_vars

BusyPayloads == {b \in Slots : payloads[b].tag = "Busy"}

WaitSlots == {b \in Slots : slots[b].tag = "Wait"}

\* C13: the number of Busy payloads never exceeds max_runtime_batch.
C13_BusyWithinBatch == Cardinality(BusyPayloads) <= max_runtime_batch

\* C13's case: two requests were waiting on a runtime with max_runtime_batch
\* = 1; the one in the lower slot was promoted, the older one still waits.
C13_Witness ==
    /\ max_runtime_batch = 1 /\ pc = "run"
    /\ payloads[0].tag = "Busy" /\ payloads[0].ctx.id = 2
    /\ payloads[0].ctx.model_tokens = << >>
    /\ slots[1].tag = "Wait" /\ slots[1].ctx.id = 1

\* C15 as claimed: outside the locked section of process, slot b is Busy if
\* and only if payload b is Busy.
C15_BusyIffBusy ==
    \A b \in Slots : (slots[b].tag = "Busy") = (payloads[b].tag = "Busy")

\* C15 amended: outside the locked section of process, payload b Busy implies
\* slot b Busy, and slot b is Busy if and only if payload b is Busy or Done:
\* from the step that finishes a request to the next reap the slot is Busy
\* beside a Done payload.
C15_BusyIffBusyOrDone ==
    \A b \in Slots :
        /\ payloads[b].tag = "Busy" => slots[b].tag = "Busy"
        /\ (slots[b].tag = "Busy") = (payloads[b].tag \in {"Busy", "Done"})

\* C15's case: one request finished and not yet reaped beside one generating.
C15_Witness ==
    /\ \E b \in Slots : payloads[b].tag = "Done" /\ slots[b].tag = "Busy"
    /\ \E b \in Slots : payloads[b].tag = "Busy" /\ payloads[b].ctx.model_tokens # << >>

C19_PromotesLowestWaiting ==
    [][LockedStep =>
          LET r == IF max_runtime_batch > Cardinality(BusyPayloads)
                   THEN max_runtime_batch - Cardinality(BusyPayloads) ELSE 0
              promoted == {b \in Slots : slots[b].tag # "Busy" /\ slots'[b].tag = "Busy"}
          IN  /\ promoted \subseteq WaitSlots
              /\ Cardinality(promoted) = Min2(Cardinality(WaitSlots), r)
              /\ \A b \in promoted : \A c \in WaitSlots \ promoted : b < c
              /\ \A b \in promoted :
                    /\ payloads'[b] = PayloadBusy(slots[b].ctx)
                    /\ sink[slots[b].ctx.id].connected =>
                          sink'[slots[b].ctx.id].events
                             = sink[slots[b].ctx.id].events \o <<EvStart>>
              /\ \A c \in WaitSlots \ promoted :
                    slots'[c] = slots[c] /\ payloads'[c].tag = "Empty"]_vars

\* C19's case: on a runtime with max_runtime_batch = 2 two waiting requests
\* were promoted in the same process call.
C19_Witness ==
    /\ max_runtime_batch = 2 /\ pc = "run"
    /\ \A b \in Slots :
          /\ payloads[b].tag = "Busy" /\ slots[b].tag = "Busy"
          /\ payloads[b].ctx.model_tokens = << >> /\ payloads[b].ctx.prefix = << >>
          /\ Events(payloads[b].ctx.id) = <<EvStart>>

\* C18: a checkout inside queue leaves the cache as it was: on a hit with key
\* p the cache still maps p to the state returned and nothing else changes,
\* on a miss nothing changes and the prefix returned is empty; no queue call
\* removes a key from the cache or changes the state under a key.
C18_CheckoutKeepsCache ==
    [][QueueStep =>
          /\ \A k \in DOMAIN cache : k \in DOMAIN cache' /\ cache'[k] = cache[k]
          /\ ret'.kind # "Fault" => cache' = cache
          /\ ret'.kind = "Fault" =>
                LET co == checkout(cache, Stem(ret'.ctx.prompt_tokens))
                IN  /\ co.cache = cache
                    /\ co.prefix = ret'.ctx.prefix
                    /\ state'[ret'.batch] = co.reload
                    /\ IF co.prefix # << >>
                       THEN co.prefix \in DOMAIN cache' /\ cache'[co.prefix] = co.reload
                       ELSE co.reload = FreshState
                    /\ ret'.choice = "Empty" => cache' = cache
                    /\ ret'.choice = "Back" =>
                          DOMAIN cache' = DOMAIN cache \cup {slots[ret'.batch].content}]_vars

\* C18's case: an eviction checked a cached state out on a hit, and the
\* entry is still there beside at least one other.
C18_Witness ==
    /\ ret.kind = "Fault" /\ ret.choice = "Back"
    /\ ret.ctx.prefix # << >>
    /\ ret.ctx.prefix \in DOMAIN cache
    /\ state[ret.batch] = cache[ret.ctx.prefix]
    /\ Cardinality(DOMAIN cache) >= 3

\* The empty sequence is never a key of the cache.
NoEmptyKey == << >> \notin DOMAIN cache

\* ================================================== the locks: the claims
\* The call of caller c is between taking both locks and returning.
InQueue(c) == calls[c].pc \in {"locked", "backing"}

\* C20: under any interleaving of queue calls with each other and with
\* process, a queue call holds both locks alone from its first look at the
\* slots to its return, and what it leaves behind is what queue makes of the
\* slot table and the cache it found; a context is only ever put into an Idle
\* slot; a waiting context stays in its slot unchanged until it becomes the
\* Busy payload of the same index; and the slot table a queue call works on
\* has no Idle slot with a non-empty content that is not a key of the cache.
C20_AdmissionAtomic ==
    [][/\ \A c \in 1 .. MaxReq :
             /\ InQueue(c) => locks = [slots |-> Caller(c), backed |-> Caller(c)]
             /\ InQueue(c) =>
                   \A b \in Slots :
                       (slots[b].tag = "Idle" /\ slots[b].content # << >>
                           /\ (calls[c].pc = "backing" => b # calls[c].batch))
                       => slots[b].content \in DOMAIN cache
             /\ (InQueue(c) /\ calls'[c].pc = "returned") =>
                   LET r == queue(calls[c].seen.slots, calls[c].seen.cache, state, now,
                                  calls[c].ctx)
                   IN  /\ slots' = r.slots
                       /\ cache' = r.cache
                       /\ state' = r.state
                       /\ ret' = r.ret
       /\ \A b \in Slots :
             /\ (slots'[b].tag = "Wait" /\ slots'[b] # slots[b]) => slots[b].tag = "Idle"
             /\ slots[b].tag = "Wait" =>
                   \/ slots'[b] = slots[b]
                   \/ slots'[b].tag = "Busy" /\ payloads'[b] = PayloadBusy(slots[b].ctx)]_vars

\* C20's case: the second call has returned after it was admitted onto the
\* slot that process reaped the first request out of, and that request's
\* snapshot is in the cache.
C20_Witness ==
    \E b \in Slots :
        /\ reaped[b].id = 1
        /\ calls[2].pc = "returned"
        /\ ret.ctx.id = 2 /\ ret.kind = "Success" /\ ret.batch = b
        /\ ret.ctx.prefix = reaped[b].prefix
        /\ reaped[b].prefix = reaped[b].prompt_tokens
        /\ Len(ret.ctx.prompt_tokens) = 2
        /\ reaped[b].prefix \in DOMAIN cache

\* ================================================ the run loop: the claims
\* The run loop leaves its inner loop in this step.
Parks == pc # "parked" /\ pc' = "parked"

\* The run loop parks only out of a state in which every payload is Empty.
ParksOnEmptyPayloads ==
    [][Parks => \A b \in Slots : payloads'[b].tag = "Empty"]_vars

\* C21: the run loop leaves its inner loop only when every payload is Empty,
\* and at the moment it parks no slot is Busy and no slot is Wait, whatever
\* queue calls ran beside the last call of process and whatever
\* max_runtime_batch is.
C21_ParksWithNoWorkLeft ==
    [][Parks => /\ \A b \in Slots : payloads'[b].tag = "Empty"
                /\ \A b \in Slots : slots'[b].tag \notin {"Busy", "Wait"}]_vars

\* The request of caller id waits in a slot.
Waits(id) == \E b \in Slots : slots[b].tag = "Wait" /\ slots[b].ctx.id = id

\* The request of caller id is the Busy payload of its slot and its sink has
\* Token::Start.
Started(id) ==
    /\ \E b \in Slots : slots[b].tag = "Busy" /\ payloads[b].tag = "Busy"
                        /\ payloads[b].ctx.id = id
    /\ \E i \in DOMAIN sink[id].events : sink[id].events[i] = EvStart

\* C22: with a fair run loop that finds its trigger, max_runtime_batch >= 1,
\* no error and requests that all finish, every context put into Wait is
\* eventually promoted to Busy and gets Token::Start, also when other
\* requests keep being admitted into the slots that become Idle.
C22_WaitLeadsToStart == \A id \in Callers : Waits(id) ~> Started(id)

\* ============================================== termination: the claims
\* max(1, max_tokens)
TokenBudget(context) == IF context.max_tokens < 1 THEN 1 ELSE context.max_tokens

\* The request of caller id is the Busy payload of a slot.
Runs(id) == \E b \in Slots : payloads[b].tag = "Busy" /\ payloads[b].ctx.id = id

\* The request of caller id was reaped: its slot went Idle under its final
\* prefix.
Reaped(id) == \E b \in Slots : reaped[b].id = id

\* C23: without errors and with a model that gives every Busy payload an
\* output, every request promoted to Busy comes to its end: a Busy payload
\* has sampled fewer than max(1, max_tokens) tokens and a Done one no more
\* than that; a Done payload leaves only by the reap, which makes its slot
\* Idle with the request's final prefix as content and puts an entry under
\* that prefix into the cache; the run loop does not park beside a Busy or
\* Done payload; and every running request is eventually reaped.
C23_RunsToItsEnd ==
    /\ [](\A b \in Slots :
            /\ payloads[b].tag = "Busy" =>
                  Len(payloads[b].ctx.model_tokens) < TokenBudget(payloads[b].ctx)
            /\ payloads[b].tag = "Done" =>
                  Len(payloads[b].ctx.model_tokens) <= TokenBudget(payloads[b].ctx)
            /\ pc = "parked" => payloads[b].tag = "Empty")
    /\ [][\A b \in Slots :
            (payloads[b].tag = "Done" /\ payloads'[b] # payloads[b]) =>
                /\ slots[b].tag = "Busy"
                /\ slots'[b].tag = "Idle"
                /\ slots'[b].content = payloads[b].ctx.prefix
                /\ payloads[b].ctx.prefix \in DOMAIN cache'
                /\ cache'[payloads[b].ctx.prefix] = state[b]
                /\ reaped'[b] = payloads[b].ctx]_vars
    /\ \A id \in 1 .. MaxReq : Runs(id) ~> Reaped(id)

\* C23's case: both requests ran at once, one with max_tokens = 0, and both
\* were reaped, the run loop is parked again.
C23_Witness ==
    /\ pc = "parked"
    /\ max_runtime_batch = 2
    /\ \A b \in Slots : /\ reaped[b].id # 0
                        /\ slots[b].tag = "Idle"
                        /\ slots[b].content = reaped[b].prefix
                        /\ reaped[b].prefix \in DOMAIN cache
    /\ \E b \in Slots : reaped[b].max_tokens = 0 /\ Len(reaped[b].model_tokens) = 1
    /\ \E b \in Slots : Len(reaped[b].model_tokens) = 2

\* ================================================ deadlock: the claims
\* The tasks: the callers and the run loop.
Tasks == {Caller(c) : c \in 1 .. MaxReq} \cup {RunLoop}

\* The lock the task waits for, "none" when it waits for none.
WaitsFor(task) ==
    IF task = RunLoop
    THEN CASE pc = "process" -> "slots"
           [] pc = "lock_backed" -> "backed"
           [] OTHER -> "none"
    ELSE CASE calls[task.id].pc = "lock_slots" -> QueueLockOrder[1]
           [] calls[task.id].pc = "lock_backed" -> QueueLockOrder[2]
           [] OTHER -> "none"

\* The task waits for a lock that another task holds.
Blocked(task) == WaitsFor(task) # "none" /\ locks[WaitsFor(task)] # NoTask

\* The task is inside its locked section, or on its way into it.
Inside(task) ==
    IF task = RunLoop THEN pc \in {"lock_backed", "reap", "reap_back"}
    ELSE calls[task.id].pc \in {"lock_backed", "locked", "backing"}

\* C24: queue and process take the lock of the slot table before the lock
\* of the cache and process holds neither when it runs the model; no lock is
\* held by a task outside its locked section and no task that holds a lock
\* is blocked, so that the tasks are never all blocked; and with back_batch
\* and load_batch returning, every call of queue and every call of process
\* that asks for the locks gets both.
C24_NoDeadlock ==
    /\ [](/\ locks.backed # NoTask => locks.slots = locks.backed
          /\ pc \in {"parked", "process", "run"} => RunLoop \notin {locks.slots, locks.backed}
          /\ \A task \in Tasks :
                (task \in {locks.slots, locks.backed}) => Inside(task) /\ ~Blocked(task)
          /\ ~(\A task \in Tasks : Blocked(task)))
    /\ \A c \in 1 .. MaxReq : (calls[c].pc = "lock_slots") ~> InQueue(c)
    /\ (pc = "process") ~> (pc = "reap")

\* C24's case: one call awaits back_batch inside its eviction with both
\* locks, the other call and process wait for the lock of the slot table.
C24_Witness ==
    /\ calls[1].pc = "backing"
    /\ locks = [slots |-> Caller(1), backed |-> Caller(1)]
    /\ Blocked(Caller(2))
    /\ Blocked(RunLoop)

====
